---------------------------- MODULE Spec2Model ----------------------------
(***************************************************************************)
(* TETFUND Monitoring Report System (src/app.py): a Streamlit script.      *)
(* Every user interaction re-executes the script from its first line to    *)
(* its last (or to the first st.rerun() / uncaught exception); the session *)
(* state and the draft file drafts/autosave.json survive between runs.     *)
(* One action of this model is one interaction: the widget event plus the  *)
(* complete script run it triggers, including the run that st.rerun()      *)
(* starts.                                                                 *)
(*                                                                         *)
(* Modelling conventions                                                   *)
(*   - currency and percentages are integers; (d / 100) * c is computed    *)
(*     as (d * c) \div 100 and the value sets keep it exact (floating      *)
(*     point rounding is not modelled);                                    *)
(*   - a missing / non-numeric cell (None, NaN) is the value NaN;          *)
(*   - texts produced by strftime / isoformat are sequences of one-        *)
(*     character strings, so that formatting and parsing are computed;     *)
(*   - datetime.now() is the fixed instant Today.                          *)
(***************************************************************************)
EXTENDS Integers, Sequences, FiniteSets, TLC

VARIABLES
    ss,       \* st.session_state
    approval_date, \* value held by the "Approval Date" widget (app.py 643)
    file,     \* drafts/autosave.json
    PDF_AVAILABLE, \* whether weasyprint could be imported (app.py 11-15)
    out,      \* what the last interaction showed / produced
    last,     \* the last interaction and the state it started from
    steps     \* number of interactions so far

vars == <<ss, approval_date, file, PDF_AVAILABLE, out, last, steps>>

-----------------------------------------------------------------------------
(* Bounds *)

MaxSteps == 2          \* interactions after the page is opened
MaxProjects == 2       \* rows the editor / Add Project may grow the list to
MaxTeam == 4           \* members Add Team Member may grow the roster to

-----------------------------------------------------------------------------
(* Configuration (app.py 19-52) *)

DEFAULT_BANK_CHARGES_AMOUNT == 215013

NaN == 0 - 1           \* None / NaN in a numeric cell

NoneVal == <<"None">>  \* Python None where a text may stand

DEFAULT_PROJECT ==
    [ s_no |-> 1, project |-> "New Project", approved_cost |-> 0,
      contract_sum |-> 0, disbursed |-> 0, balance |-> 100,
      quality |-> "Good", compliance |-> "Compliant", other_obs |-> "",
      completion |-> 0, docs |-> "Pending",
      recommendation |-> "Pending Review" ]

DEFAULT_MONITORING_TEAM ==
    << [name |-> "Arch. A.A.", designation |-> "Team Lead"],
       [name |-> "Engr. A.B.", designation |-> "Monitor"],
       [name |-> "Mr. A.C.", designation |-> "Engineer"] >>

-----------------------------------------------------------------------------
(* Dates and their textual forms *)

Today == [y |-> 2026, m |-> 11, d |-> 3]

OtherDate == [y |-> 2025, m |-> 1, d |-> 9]

DigitChars == <<"0", "1", "2", "3", "4", "5", "6", "7", "8", "9">>

MonthAbbr == <<"Jan", "Feb", "Mar", "Apr", "May", "Jun",
               "Jul", "Aug", "Sep", "Oct", "Nov", "Dec">>

RECURSIVE Pad(_, _)
\* the decimal digits of n, zero-padded to width w (format %0wd)
Pad(n, w) == IF w = 0 THEN <<>>
             ELSE Append(Pad(n \div 10, w - 1), DigitChars[(n % 10) + 1])

\* day and month written in the wrong order
strftime_Ydm(dt) == Pad(dt.y, 4) \o <<"-">> \o Pad(dt.d, 2) \o <<"-">> \o Pad(dt.m, 2)

\* date.strftime("%Y-%m-%d")
strftime_Ymd(dt) == Pad(dt.y, 4) \o <<"-">> \o Pad(dt.m, 2) \o <<"-">> \o Pad(dt.d, 2)

\* date.strftime("%d-%b-%Y")
strftime_dbY(dt) == Pad(dt.d, 2) \o <<"-", MonthAbbr[dt.m], "-">> \o Pad(dt.y, 4)

\* datetime.now().isoformat()
isoformat_now == strftime_Ymd(Today) \o <<"T", "0", "9", ":", "0", "0", ":", "0", "0">>

\* str(datetime.now().year)
str_year(dt) == Pad(dt.y, 4)

IsDigit(c) == \E i \in 1..10 : DigitChars[i] = c

DigitVal(c) == (CHOOSE i \in 1..10 : DigitChars[i] = c) - 1

RECURSIVE Num(_)
\* int() of a sequence of decimal digits
Num(t) == IF t = <<>> THEN 0
          ELSE 10 * Num(SubSeq(t, 1, Len(t) - 1)) + DigitVal(t[Len(t)])

DaysIn(y, m) ==
    IF m \in {4, 6, 9, 11} THEN 30
    ELSE IF m = 2 THEN (IF (y % 4 = 0 /\ y % 100 # 0) \/ y % 400 = 0 THEN 29 ELSE 28)
    ELSE 31

\* the text is a YYYY-MM-DD[Thh:mm:ss] date that datetime.fromisoformat accepts
IsIsoDate(t) ==
    /\ Len(t) \in {10, 19}
    /\ \A i \in {1, 2, 3, 4, 6, 7, 9, 10} : IsDigit(t[i])
    /\ t[5] = "-" /\ t[8] = "-"
    /\ Len(t) = 19 => t[11] = "T"
    /\ Num(SubSeq(t, 1, 4)) >= 1
    /\ Num(SubSeq(t, 6, 7)) \in 1..12
    /\ Num(SubSeq(t, 9, 10)) \in 1..DaysIn(Num(SubSeq(t, 1, 4)), Num(SubSeq(t, 6, 7)))

\* datetime.fromisoformat(text).date()
fromisoformat_date(t) ==
    [y |-> Num(SubSeq(t, 1, 4)), m |-> Num(SubSeq(t, 6, 7)), d |-> Num(SubSeq(t, 9, 10))]


-----------------------------------------------------------------------------
(* Session state (app.py 174-195) *)

EmptySession == [k \in {} |-> 0]

defaults ==
    [ projects |-> <<DEFAULT_PROJECT>>,
      institution_name |-> "",
      location |-> "",
      intervention_year |-> str_year(Today),
      inspection_date |-> Today,
      bank_charges_added |-> FALSE,
      bank_charges_amount |-> DEFAULT_BANK_CHARGES_AMOUNT,
      monitoring_team |-> DEFAULT_MONITORING_TEAM,
      approval_status |-> "Pending",
      dme_officer |-> "",
      approval_comments |-> "",
      generated_reports |-> <<>>,
      draft_loaded |-> NoneVal,
      pdf_orientation |-> "Landscape" ]

\* every key that is not in the session gets its default
init_state(s) ==
    [k \in (DOMAIN defaults) \cup (DOMAIN s) |->
        IF k \in DOMAIN s THEN s[k] ELSE defaults[k]]

\* truth value of a text-or-None
Truthy(v) == v # NoneVal /\ v # <<>>

-----------------------------------------------------------------------------
(* Draft file: autosave (app.py 198-216) and load_autosave (218-235) *)

NoFile == [exists |-> FALSE]

GarbageFile == [exists |-> TRUE, json |-> FALSE]

JsonFile(draft) == [exists |-> TRUE, json |-> TRUE, draft |-> draft]

\* the dict that autosave dumps
DraftOf(s) ==
    [ projects |-> s.projects,
      institution_name |-> s.institution_name,
      location |-> s.location,
      intervention_year |-> s.intervention_year,
      inspection_date |-> strftime_Ymd(s.inspection_date),
      bank_charges_added |-> s.bank_charges_added,
      bank_charges_amount |-> s.bank_charges_amount,
      monitoring_team |-> s.monitoring_team,
      approval_status |-> s.approval_status,
      dme_officer |-> s.dme_officer,
      approval_comments |-> s.approval_comments,
      pdf_orientation |-> s.pdf_orientation,
      saved_at |-> isoformat_now ]

\* autosave(): the file is overwritten with the dump of the session
autosave(s) == JsonFile(DraftOf(s))

\* the default taken whether or not the key is present
Get_AlwaysDefault(d, k, dflt) == dflt

\* dict.get(key, default)
Get(d, k, dflt) == IF k \in DOMAIN d THEN d[k] ELSE dflt

\* the assignments of load_autosave in program order: draft key, session
\* key, and the default of a draft.get (a draft[...] has none)
LoadPlan ==
    << [key |-> "projects", to |-> "projects", opt |-> FALSE],
       [key |-> "institution_name", to |-> "institution_name", opt |-> FALSE],
       [key |-> "location", to |-> "location", opt |-> FALSE],
       [key |-> "intervention_year", to |-> "intervention_year", opt |-> FALSE],
       [key |-> "inspection_date", to |-> "inspection_date", opt |-> FALSE],
       [key |-> "bank_charges_added", to |-> "bank_charges_added", opt |-> FALSE],
       [key |-> "bank_charges_amount", to |-> "bank_charges_amount", opt |-> TRUE,
        dflt |-> DEFAULT_BANK_CHARGES_AMOUNT],
       [key |-> "monitoring_team", to |-> "monitoring_team", opt |-> FALSE],
       [key |-> "approval_status", to |-> "approval_status", opt |-> FALSE],
       [key |-> "dme_officer", to |-> "dme_officer", opt |-> FALSE],
       [key |-> "approval_comments", to |-> "approval_comments", opt |-> FALSE],
       [key |-> "pdf_orientation", to |-> "pdf_orientation", opt |-> TRUE,
        dflt |-> "Landscape"],
       [key |-> "saved_at", to |-> "draft_loaded", opt |-> TRUE, dflt |-> NoneVal] >>

RECURSIVE LoadFrom(_, _, _)
\* assignments i.. of load_autosave; a KeyError or ValueError leaves the
\* assignments made so far in the session and propagates
LoadFrom(s, draft, i) ==
    IF i > Len(LoadPlan) THEN [ss |-> s, raised |-> FALSE]
    ELSE LET a == LoadPlan[i] IN
         IF ~a.opt /\ a.key \notin DOMAIN draft
         THEN [ss |-> s, raised |-> TRUE]
         ELSE IF a.key = "inspection_date"
         THEN IF IsIsoDate(draft[a.key])
              THEN LoadFrom([s EXCEPT ![a.to] = fromisoformat_date(draft[a.key])],
                            draft, i + 1)
              ELSE [ss |-> s, raised |-> TRUE]
         ELSE IF a.opt
         THEN LoadFrom([s EXCEPT ![a.to] = Get(draft, a.key, a.dflt)], draft, i + 1)
         ELSE LoadFrom([s EXCEPT ![a.to] = draft[a.key]], draft, i + 1)

\* load_autosave(): json.load raises on a file that is not JSON
load_autosave(s, f) ==
    IF ~f.exists THEN [ss |-> s, raised |-> FALSE]
    ELSE IF ~f.json THEN [ss |-> s, raised |-> TRUE]
    ELSE LoadFrom(s, f.draft, 1)

-----------------------------------------------------------------------------
(* recalc_projects (app.py 241-246) *)

\* pd.to_numeric(errors="coerce").fillna(0)
to_numeric_fillna0(v) == IF v = NaN THEN 0 ELSE v

\* the balance is taken off the balance the row had
recalc_projects_FromBalance(df) ==
    [i \in 1..Len(df) |->
        [df[i] EXCEPT !.disbursed = to_numeric_fillna0(df[i].disbursed),
                      !.completion = to_numeric_fillna0(df[i].completion),
                      !.balance = df[i].balance - to_numeric_fillna0(df[i].disbursed),
                      !.s_no = i]]

\* app.py 241-246
recalc_projects(df) ==
    [i \in 1..Len(df) |->
        [df[i] EXCEPT !.disbursed = to_numeric_fillna0(df[i].disbursed),
                      !.completion = to_numeric_fillna0(df[i].completion),
                      !.balance = 100 - to_numeric_fillna0(df[i].disbursed),
                      !.s_no = i]]

-----------------------------------------------------------------------------
(* Summary statistics (app.py 649-685) *)

\* a project at exactly 100 % is not counted
IsCompleted_Strict(p) == p.completion > 100

\* app.py 651: p["completion"] >= 100
IsCompleted(p) == p.completion >= 100

RECURSIVE Sum(_)
\* sum(...) of a sequence of numbers
Sum(q) == IF q = <<>> THEN 0 ELSE q[1] + Sum(Tail(q))

RECURSIVE Gcd(_, _)
Gcd(a, b) == IF b = 0 THEN a ELSE Gcd(b, a % b)

\* the exact value n / d (d > 0, n >= 0) as a reduced fraction
Frac(n, d) == [num |-> n \div Gcd(n, d), den |-> d \div Gcd(n, d)]

\* the division by 100 forgotten
DisbursedAmount_NoPercent(p) == p.disbursed * p.contract_sum

\* (p["disbursed"] / 100) * p["contract_sum"]
DisbursedAmount(p) == (p.disbursed * p.contract_sum) \div 100

\* the rider left out of the total
AddBankCharges_Ignored(total, bank_charges_added, bank_charges) == total

\* app.py 659-664: total += bank_charges when the box is checked
AddBankCharges(total, bank_charges_added, bank_charges) ==
    IF bank_charges_added THEN total + bank_charges ELSE total

Summary(projects, bank_charges_added, bank_charges_amount) ==
    LET total_projects == Len(projects)
        completed == Sum([i \in 1..Len(projects) |->
                            IF IsCompleted(projects[i]) THEN 1 ELSE 0])
        in_progress == total_projects - completed
        completion_rate == IF total_projects # 0
                           THEN Frac(completed * 100, total_projects)
                           ELSE Frac(0, 1)
        approved0 == Sum([i \in 1..Len(projects) |-> projects[i].approved_cost])
        contract0 == Sum([i \in 1..Len(projects) |-> projects[i].contract_sum])
        disbursed0 == Sum([i \in 1..Len(projects) |-> DisbursedAmount(projects[i])])
        total_approved == AddBankCharges(approved0, bank_charges_added, bank_charges_amount)
        total_contract == AddBankCharges(contract0, bank_charges_added, bank_charges_amount)
        total_disbursed == AddBankCharges(disbursed0, bank_charges_added, bank_charges_amount)
    IN  [ total_projects |-> total_projects,
          completed |-> completed,
          in_progress |-> in_progress,
          completion_rate |-> completion_rate,
          total_approved |-> total_approved,
          total_contract |-> total_contract,
          total_disbursed |-> total_disbursed,
          balance |-> total_contract - total_disbursed ]

-----------------------------------------------------------------------------
(* Renderers: export_excel (249-256), generate_pdf (259-275),              *)
(* create_html_report (277-482)                                            *)

\* the three sheets; the arguments are written through unchanged
export_excel(projects, institution_info, summary) ==
    [ Projects |-> projects,
      Institution |-> <<institution_info>>,
      Summary |-> <<summary>> ]

\* the parts of the HTML document that depend on the arguments
create_html_report(projects, institution_info, monitoring_team, approval_info, summary, orientation) ==
    [ page_size |-> IF orientation = "Landscape" THEN "A4 landscape" ELSE "A4",
      project_rows |-> [i \in 1..Len(projects) |->
                          [n |-> i,
                           project |-> projects[i].project,
                           approved_cost |-> projects[i].approved_cost,
                           contract_sum |-> projects[i].contract_sum,
                           disbursed |-> projects[i].disbursed,
                           balance |-> projects[i].balance,
                           quality |-> projects[i].quality,
                           compliance |-> projects[i].compliance,
                           other_obs |-> projects[i].other_obs,
                           completion |-> projects[i].completion,
                           docs |-> projects[i].docs,
                           recommendation |-> projects[i].recommendation]],
      team_rows |-> [i \in 1..Len(monitoring_team) |->
                          [n |-> i, name |-> monitoring_team[i].name,
                           designation |-> monitoring_team[i].designation]],
      institution |-> institution_info,
      summary |-> summary,
      approval |-> approval_info ]

\* generate_pdf: the bytes of the document, or None with the error shown
\* when create_html_report or HTML(...).write_pdf raises (engine_ok false)
generate_pdf(projects, institution_info, monitoring_team, approval_info, summary, orientation, engine_ok) ==
    IF engine_ok
    THEN [ result |-> "bytes",
           document |-> create_html_report(projects, institution_info,
                            monitoring_team, approval_info, summary, orientation),
           errors |-> {} ]
    ELSE [ result |-> "None",
           errors |-> {"PDF generation failed", "traceback"} ]

-----------------------------------------------------------------------------
(* One script run.  The run is the record m: the session, the widget-held  *)
(* approval date, the draft file, the output of the run, and halt, which   *)
(* is "run" while the script executes, "rerun" after st.rerun() and        *)
(* "crash" after an uncaught exception.  ev is the widget event that       *)
(* triggered the run.                                                      *)

NoEvent == [w |-> "none"]

NoCall == [called |-> FALSE]

NoLoad == [ran |-> FALSE]

BlankOut ==
    [ crashed |-> FALSE, warnings |-> {}, errors |-> {}, load |-> NoLoad,
      excel |-> NoCall, pdf |-> NoCall, download_pdf |-> FALSE ]

\* the value a widget returns: the user's entry when the event is on this
\* widget, its value argument otherwise
Val(ev, w, cur) == IF ev.w = w THEN ev.v ELSE cur

\* app.py 237-238
Startup(m) ==
    IF m.file.exists /\ ~Truthy(m.ss.draft_loaded)
    THEN LET r == load_autosave(m.ss, m.file) IN
         [m EXCEPT !.ss = r.ss,
                   !.out.load = [ran |-> TRUE, raised |-> r.raised,
                                 src |-> m.file, ss |-> r.ss],
                   !.out.crashed = r.raised,
                   !.halt = IF r.raised THEN "crash" ELSE "run"]
    ELSE m

\* app.py 512-545
InstitutionInfo(m, ev) ==
    IF m.halt # "run" THEN m ELSE
    [m EXCEPT !.ss.institution_name = Val(ev, "institution_name", @),
              !.ss.location = Val(ev, "location", @),
              !.ss.intervention_year = Val(ev, "intervention_year", @),
              !.ss.inspection_date = Val(ev, "inspection_date", @),
              !.ss.bank_charges_amount = Val(ev, "bank_charges_input", @),
              !.ss.bank_charges_added = Val(ev, "bank_charges_added", @)]

\* app.py 549-550
AutosaveStep(m) ==
    IF m.halt # "run" THEN m ELSE [m EXCEPT !.file = autosave(m.ss)]

RECURSIVE DropRows(_, _, _)
\* the rows of df from i on whose index is not in rows
DropRows(df, rows, i) ==
    IF i > Len(df) THEN <<>>
    ELSE IF i \in rows THEN DropRows(df, rows, i + 1)
    ELSE <<df[i]>> \o DropRows(df, rows, i + 1)

\* st.data_editor (app.py 556-576): the table with the user's change
data_editor(df, ev) ==
    IF ev.w # "projects_editor" THEN df
    ELSE IF ev.v.op = "cell" THEN [df EXCEPT ![ev.v.row][ev.v.col] = ev.v.val]
    ELSE IF ev.v.op = "add" THEN Append(df, ev.v.new)
    ELSE DropRows(df, ev.v.rows, 1)

\* the editor's table is stored whatever it holds
ProjectsEditor_StoresEmpty(m, ev) ==
    IF m.halt # "run" THEN m ELSE
    LET edited_df == data_editor(m.ss.projects, ev) IN
    [m EXCEPT !.ss.projects = recalc_projects(edited_df)]

\* app.py 555-580
ProjectsEditor(m, ev) ==
    IF m.halt # "run" THEN m ELSE
    LET edited_df == data_editor(m.ss.projects, ev) IN
    IF edited_df # <<>>
    THEN [m EXCEPT !.ss.projects = recalc_projects(edited_df)]
    ELSE m

\* reset_all (app.py 485-489)
reset_all(m) ==
    [m EXCEPT !.ss = init_state(EmptySession), !.halt = "rerun"]

\* the list keeps its last element and loses its first
pop_First(l) == Tail(l)

\* list.pop() (app.py 592, 626): the list without its last element
pop(l) == SubSeq(l, 1, Len(l) - 1)

\* Remove Last Project refuses to remove the only project
ProjectButtons_KeepsOne(m, ev) ==
    IF m.halt # "run" THEN m
    ELSE IF ev.w = "add_project"
    THEN [m EXCEPT !.ss.projects =
                       Append(@, [DEFAULT_PROJECT EXCEPT !.s_no = Len(m.ss.projects) + 1]),
                   !.halt = "rerun"]
    ELSE IF ev.w = "remove_last_project"
    THEN IF Len(m.ss.projects) > 1
         THEN [m EXCEPT !.ss.projects = pop(@), !.halt = "rerun"]
         ELSE m
    ELSE IF ev.w = "reset_button" THEN reset_all(m)
    ELSE m

\* app.py 582-598
ProjectButtons(m, ev) ==
    IF m.halt # "run" THEN m
    ELSE IF ev.w = "add_project"
    THEN [m EXCEPT !.ss.projects =
                       Append(@, [DEFAULT_PROJECT EXCEPT !.s_no = Len(m.ss.projects) + 1]),
                   !.halt = "rerun"]
    ELSE IF ev.w = "remove_last_project"
    THEN IF m.ss.projects # <<>>
         THEN [m EXCEPT !.ss.projects = pop(@), !.halt = "rerun"]
         ELSE m
    ELSE IF ev.w = "reset_button" THEN reset_all(m)
    ELSE m

\* app.py 602-627
MonitoringTeam(m, ev) ==
    IF m.halt # "run" THEN m ELSE
    LET team == [i \in 1..Len(m.ss.monitoring_team) |->
                    [name |-> IF ev.w = "team_name" /\ ev.i = i THEN ev.v
                              ELSE m.ss.monitoring_team[i].name,
                     designation |-> IF ev.w = "team_desig" /\ ev.i = i THEN ev.v
                                     ELSE m.ss.monitoring_team[i].designation]]
    IN
    IF ev.w = "add_member"
    THEN [m EXCEPT !.ss.monitoring_team = Append(team, [name |-> "", designation |-> ""]),
                   !.halt = "rerun"]
    ELSE IF ev.w = "remove_last_member"
    THEN IF team # <<>>
         THEN [m EXCEPT !.ss.monitoring_team = pop(team),
                        !.halt = "rerun"]
         ELSE [m EXCEPT !.ss.monitoring_team = team]
    ELSE [m EXCEPT !.ss.monitoring_team = team]

\* app.py 631-644
Approval(m, ev) ==
    IF m.halt # "run" THEN m ELSE
    [m EXCEPT !.ss.approval_status = Val(ev, "approval_status", @),
              !.ss.dme_officer = Val(ev, "dme_officer", @),
              !.ad = Val(ev, "approval_date", @),
              !.ss.approval_comments = Val(ev, "approval_comments", @)]

\* the synthetic row of app.py 742-754
BankChargesRow(bank_charges) ==
    [ project |-> "Bank and Administrative Charges",
      approved_cost |-> bank_charges,
      contract_sum |-> bank_charges,
      disbursed |-> 100,
      balance |-> 0,
      quality |-> "N/A",
      compliance |-> "N/A",
      other_obs |-> "Administrative charges",
      completion |-> 100,
      docs |-> "Submitted",
      recommendation |-> "Processed" ]

\* the row appended whether or not the box is checked
pdf_projects_Always(s) == Append(s.projects, BankChargesRow(s.bank_charges_amount))

\* app.py 737-754
pdf_projects(s) ==
    IF s.bank_charges_added
    THEN Append(s.projects, BankChargesRow(s.bank_charges_amount))
    ELSE s.projects

\* the location check left out
ValidationWarnings_NoLocation(s) ==
    (IF s.institution_name = "" THEN {"Institution name is required"} ELSE {})
    \cup (IF s.projects = <<>> THEN {"At least one project is required"} ELSE {})

\* no .copy(): the row is appended to the session's own list
SessionProjectsAfterPdf_Alias(s) == pdf_projects(s)

\* st.session_state.projects after app.py 737-754: pdf_projects is a copy
\* of the list, so the append does not reach the session
SessionProjectsAfterPdf(s) == s.projects

\* the blocking reasons of app.py 714-723
ValidationWarnings(s) ==
    (IF s.institution_name = "" THEN {"Institution name is required"} ELSE {})
    \cup (IF s.location = "" THEN {"Location is required"} ELSE {})
    \cup (IF s.projects = <<>> THEN {"At least one project is required"} ELSE {})

\* app.py 648-786
Exports(m, ev, pdf_available) ==
    IF m.halt # "run" THEN m ELSE
    LET s == m.ss
        institution_info == [ name |-> s.institution_name,
                              location |-> s.location,
                              year |-> s.intervention_year,
                              date |-> strftime_dbY(s.inspection_date) ]
        summary == Summary(s.projects, s.bank_charges_added, s.bank_charges_amount)
        excel == [ called |-> TRUE,
                   bytes |-> export_excel(s.projects, institution_info, summary) ]
        m1 == [m EXCEPT !.out.excel = excel]
    IN
    IF ~pdf_available
    THEN [m1 EXCEPT !.out.errors = @ \cup {"PDF generation not installed. Run:"}]
    ELSE
    LET orientation == Val(ev, "pdf_orientation", s.pdf_orientation)
        s2 == [s EXCEPT !.pdf_orientation = orientation]
        warns == ValidationWarnings(s2)
        valid == warns = {}
        m2 == [m1 EXCEPT !.ss = s2, !.out.warnings = @ \cup warns]
        approval_info == [ status |-> s2.approval_status,
                           officer |-> s2.dme_officer,
                           date |-> strftime_dbY(m.ad),
                           comments |-> IF s2.approval_comments # ""
                                        THEN s2.approval_comments
                                        ELSE "No comments provided" ]
    IN
    IF ev.w # "generate_pdf" THEN m2
    ELSE IF ~valid
    THEN [m2 EXCEPT !.out.errors = @ \cup {"Fix validation errors before generating PDF."}]
    ELSE
    LET r == generate_pdf(pdf_projects(s2), institution_info, s2.monitoring_team,
                          approval_info, summary, s2.pdf_orientation, ev.engine_ok)
        call == [ called |-> TRUE,
                  projects |-> pdf_projects(s2),
                  institution_info |-> institution_info,
                  monitoring_team |-> s2.monitoring_team,
                  approval_info |-> approval_info,
                  summary |-> summary,
                  orientation |-> s2.pdf_orientation,
                  result |-> r.result ]
    IN
    IF r.result # "None"
    THEN [m2 EXCEPT !.ss.projects = SessionProjectsAfterPdf(s2),
                    !.out.pdf = call, !.out.download_pdf = TRUE]
    ELSE [m2 EXCEPT !.ss.projects = SessionProjectsAfterPdf(s2),
                    !.out.pdf = call,
                    !.out.errors = @ \cup r.errors
                        \cup {"PDF generation failed. Check the error messages above."}]

\* main (app.py 492-792)
main(m, ev, pdf_available) ==
    Exports(
      Approval(
        MonitoringTeam(
          ProjectButtons(
            ProjectsEditor(
              AutosaveStep(
                InstitutionInfo(m, ev)), ev), ev), ev), ev), ev, pdf_available)

\* one execution of the script, top to bottom
Script(s, ad, f, ev, pdf_available) ==
    main(Startup([ ss |-> init_state(s), ad |-> ad, file |-> f,
                   out |-> BlankOut, halt |-> "run" ]),
         ev, pdf_available)

\* one interaction: the run the event triggers and, after st.rerun(), the
\* run that follows it (no widget has changed in that one)
Interaction(s, ad, f, ev, pdf_available) ==
    LET r == Script(s, ad, f, ev, pdf_available) IN
    IF r.halt = "rerun" THEN Script(r.ss, r.ad, r.file, NoEvent, pdf_available) ELSE r

-----------------------------------------------------------------------------
(* Values the user enters and draft files found when the page is opened *)

InstitutionNames == {"", "ABU"}

Locations == {"", "Zaria"}

Years == {str_year(Today), <<"2", "0", "1", "9">>}

Dates == {Today, OtherDate}

Amounts == {DEFAULT_BANK_CHARGES_AMOUNT, 5000}

Statuses == {"Pending", "Approved", "Returned for Correction", "Rejected"}

Officers == {"", "Mrs. D."}

Comments == {"", "Seen"}

Orientations == {"Landscape", "Portrait"}

\* a cell of the projects table and a value typed into it; the two cost
\* columns hold numbers, a percentage cell may be cleared
CellEdits ==
    { <<"project", "Library">>, <<"approved_cost", 1000>>, <<"contract_sum", 2000>>,
      <<"disbursed", 50>>, <<"disbursed", NaN>>,
      <<"completion", 100>>, <<"completion", NaN>>,
      <<"quality", "Excellent">> }

\* a row appended in the editor: the disabled and the untouched cells are
\* empty
EditorRow ==
    [ s_no |-> NaN, project |-> "Hostel", approved_cost |-> 1000,
      contract_sum |-> 1000, disbursed |-> NaN, balance |-> NaN,
      quality |-> "Good", compliance |-> "Partial", other_obs |-> "",
      completion |-> NaN, docs |-> "Submitted", recommendation |-> "" ]

ExampleProjects ==
    << [DEFAULT_PROJECT EXCEPT !.s_no = 1, !.project = "Lecture Theatre",
            !.approved_cost = 1000, !.contract_sum = 1000,
            !.disbursed = 50, !.balance = 50, !.completion = 60],
       [DEFAULT_PROJECT EXCEPT !.s_no = 2, !.project = "Laboratory",
            !.approved_cost = 2000, !.contract_sum = 2000,
            !.disbursed = 100, !.balance = 0, !.completion = 100] >>

\* a list whose derived columns are stale
StaleProjects ==
    << [DEFAULT_PROJECT EXCEPT !.s_no = 7, !.contract_sum = 1000,
            !.disbursed = 30, !.balance = 10],
       [DEFAULT_PROJECT EXCEPT !.s_no = 7, !.project = "Clinic",
            !.approved_cost = 2000, !.balance = 0, !.completion = 100] >>

SessionA ==
    [defaults EXCEPT !.projects = ExampleProjects,
                     !.institution_name = "ABU",
                     !.location = "Zaria",
                     !.inspection_date = OtherDate,
                     !.bank_charges_added = TRUE,
                     !.bank_charges_amount = 5000,
                     !.monitoring_team = <<[name |-> "Dr. E.", designation |-> "Lead"]>>,
                     !.approval_status = "Approved",
                     !.dme_officer = "Mrs. D.",
                     !.pdf_orientation = "Portrait"]

SessionB == [defaults EXCEPT !.projects = StaleProjects, !.institution_name = "ABU"]

SessionC == [defaults EXCEPT !.projects = <<>>, !.monitoring_team = <<>>,
                             !.location = "Zaria"]

\* the draft without the keys K
Drop(draft, K) == [k \in (DOMAIN draft) \ K |-> draft[k]]

OptionalKeys == {"bank_charges_amount", "pdf_orientation", "saved_at"}

\* drafts that hold every key load_autosave indexes, with any of the keys it
\* reads through .get left out
CompleteDrafts ==
    { Drop(DraftOf(b), K) :
        b \in {SessionA, SessionB, SessionC},
        K \in {{}, {"bank_charges_amount"}, {"pdf_orientation"}, {"saved_at"},
               OptionalKeys} }

\* drafts on which load_autosave raises
BrokenDrafts ==
    { Drop(DraftOf(SessionA), {"projects"}),
      Drop(DraftOf(SessionA), {"location", "bank_charges_amount"}),
      [DraftOf(SessionA) EXCEPT !.inspection_date = strftime_dbY(OtherDate)] }

InitialFiles ==
    {NoFile, GarbageFile} \cup {JsonFile(d) : d \in CompleteDrafts \cup BrokenDrafts}

-----------------------------------------------------------------------------
(* The state machine *)

Init ==
    /\ ss = init_state(EmptySession)
    /\ approval_date = Today
    /\ file \in InitialFiles
    /\ PDF_AVAILABLE \in BOOLEAN
    /\ out = BlankOut
    /\ last = [w |-> "init"]
    /\ steps = 0

\* the effect of one interaction on the variables
Apply(s, ev) ==
    \E r \in {Interaction(s, approval_date, file, ev, PDF_AVAILABLE)} :
    /\ ss' = r.ss
    /\ approval_date' = r.ad
    /\ file' = r.file
    /\ out' = r.out
    /\ last' = ev
    /\ steps' = steps + 1
    /\ UNCHANGED PDF_AVAILABLE

\* a widget of the rendered page is operated
Do(ev) ==
    /\ last.w # "init"
    /\ ~out.crashed
    /\ steps < MaxSteps
    /\ Apply(ss, ev)

\* the page is opened (or reloaded) in the browser: a new session
OpenPage ==
    /\ steps < MaxSteps \/ last.w = "init"
    /\ \E r \in {Interaction(EmptySession, Today, file, [w |-> "open"], PDF_AVAILABLE)} :
       /\ ss' = r.ss
       /\ approval_date' = r.ad
       /\ file' = r.file
       /\ out' = r.out
       /\ last' = [w |-> "open"]
       /\ steps' = IF last.w = "init" THEN steps ELSE steps + 1
       /\ UNCHANGED PDF_AVAILABLE

EditInstitutionName ==
    \E v \in InstitutionNames \ {ss.institution_name} :
        Do([w |-> "institution_name", v |-> v])

EditLocation ==
    \E v \in Locations \ {ss.location} : Do([w |-> "location", v |-> v])

EditInterventionYear ==
    \E v \in Years \ {ss.intervention_year} : Do([w |-> "intervention_year", v |-> v])

EditInspectionDate ==
    \E v \in Dates \ {ss.inspection_date} : Do([w |-> "inspection_date", v |-> v])

EditBankChargesAmount ==
    \E v \in Amounts \ {ss.bank_charges_amount} : Do([w |-> "bank_charges_input", v |-> v])

ToggleBankCharges ==
    \E v \in BOOLEAN \ {ss.bank_charges_added} : Do([w |-> "bank_charges_added", v |-> v])

EditCell ==
    \E row \in 1..Len(ss.projects), e \in CellEdits :
        /\ ss.projects[row][e[1]] # e[2]
        /\ Do([w |-> "projects_editor",
               v |-> [op |-> "cell", row |-> row, col |-> e[1], val |-> e[2]]])

EditorAddRow ==
    /\ Len(ss.projects) < MaxProjects
    /\ Do([w |-> "projects_editor", v |-> [op |-> "add", new |-> EditorRow]])

EditorDeleteRows ==
    \E rows \in (SUBSET (1..Len(ss.projects))) \ {{}} :
        Do([w |-> "projects_editor", v |-> [op |-> "delete", rows |-> rows]])

AddProject ==
    /\ Len(ss.projects) < MaxProjects
    /\ Do([w |-> "add_project"])

\* the buttons are on every page that rendered, whatever the lists hold
RemoveLastProject ==
    /\ ~out.crashed
    /\ Do([w |-> "remove_last_project"])

ResetAll ==
    /\ ~out.crashed
    /\ Do([w |-> "reset_button"])

EditMemberName ==
    \E i \in 1..Len(ss.monitoring_team) :
        /\ ss.monitoring_team[i].name # "Dr. X."
        /\ Do([w |-> "team_name", i |-> i, v |-> "Dr. X."])

EditMemberDesignation ==
    \E i \in 1..Len(ss.monitoring_team) :
        /\ ss.monitoring_team[i].designation # "Member"
        /\ Do([w |-> "team_desig", i |-> i, v |-> "Member"])

AddMember ==
    /\ Len(ss.monitoring_team) < MaxTeam
    /\ Do([w |-> "add_member"])

RemoveLastMember ==
    /\ ~out.crashed
    /\ Do([w |-> "remove_last_member"])

EditApprovalStatus ==
    \E v \in Statuses \ {ss.approval_status} : Do([w |-> "approval_status", v |-> v])

EditOfficer ==
    \E v \in Officers \ {ss.dme_officer} : Do([w |-> "dme_officer", v |-> v])

EditApprovalDate ==
    \E v \in Dates \ {approval_date} : Do([w |-> "approval_date", v |-> v])

EditComments ==
    \E v \in Comments \ {ss.approval_comments} : Do([w |-> "approval_comments", v |-> v])

\* the radio is on the page only when weasyprint is installed
SetOrientation ==
    /\ PDF_AVAILABLE
    /\ \E v \in Orientations \ {ss.pdf_orientation} : Do([w |-> "pdf_orientation", v |-> v])

\* the button is pressed; the render engine works or throws
GeneratePdf ==
    /\ PDF_AVAILABLE
    /\ \E ok \in BOOLEAN : Do([w |-> "generate_pdf", engine_ok |-> ok])

Next ==
    \/ OpenPage
    \/ EditInstitutionName
    \/ EditLocation
    \/ EditInterventionYear
    \/ EditInspectionDate
    \/ EditBankChargesAmount
    \/ ToggleBankCharges
    \/ EditCell
    \/ EditorAddRow
    \/ EditorDeleteRows
    \/ AddProject
    \/ RemoveLastProject
    \/ ResetAll
    \/ EditMemberName
    \/ EditMemberDesignation
    \/ AddMember
    \/ RemoveLastMember
    \/ EditApprovalStatus
    \/ EditOfficer
    \/ EditApprovalDate
    \/ EditComments
    \/ SetOrientation
    \/ GeneratePdf

Spec == Init /\ [][Next]_vars

-----------------------------------------------------------------------------
(* Properties *)

\* the last interaction ran the script to its end
Completed == last.w # "init" /\ ~out.crashed

\* the keys of the session that autosave persists
PersistedKeys ==
    { "projects", "institution_name", "location", "intervention_year",
      "inspection_date", "bank_charges_added", "bank_charges_amount",
      "monitoring_team", "approval_status", "dme_officer",
      "approval_comments", "pdf_orientation" }

Normalized(projects) ==
    \A i \in 1..Len(projects) :
        /\ projects[i].balance = 100 - projects[i].disbursed
        /\ projects[i].s_no = i

\* C1: once an interaction has run to completion, every project of the list
\* has balance = 100 - disbursed and a sequence number equal to its 1-based
\* position.
C1_ProjectsNormalized == Completed => Normalized(ss.projects)

\* C2: when an interaction of the user that changed a persisted part of the
\* state has run to completion, the draft file is the encoding of the state
\* at the end of that interaction.
C2_SnapshotIsCurrent ==
    [][ ( /\ last'.w # "open"
          /\ ~out'.crashed
          /\ \E k \in PersistedKeys : ss'[k] # ss[k] )
        => file' = autosave(ss') ]_vars

\* C3: after reset_all and the rerun it triggers, the working state is the
\* default state, whatever draft was persisted before.
C3_ResetGivesDefaults ==
    (last.w = "reset_button" /\ ~out.crashed)
        => \A k \in PersistedKeys : ss[k] = defaults[k]

\* C4: decoding a structurally invalid draft does not fail the run: the
\* script completes and the session holds the default state.
C4_DecodeFailureContained ==
    (last.w = "open" /\ out.load.ran /\ out.load.raised)
        => /\ ~out.crashed
           /\ \A k \in PersistedKeys : ss[k] = defaults[k]

\* the keys a draft must hold (load_autosave indexes them)
RequiredKeys ==
    { "projects", "institution_name", "location", "intervention_year",
      "inspection_date", "bank_charges_added", "monitoring_team",
      "approval_status", "dme_officer", "approval_comments" }

\* C5: decoding a draft that holds every required field never fails; a
\* missing rider amount decodes to the default constant, a missing
\* orientation to Landscape, and every field that is present is taken from
\* the draft.
C5_OptionalFieldsDefault ==
    ( /\ out.load.ran
      /\ out.load.src.json
      /\ RequiredKeys \subseteq DOMAIN out.load.src.draft
      /\ IsIsoDate(out.load.src.draft.inspection_date) )
    => LET d == out.load.src.draft
           s == out.load.ss
       IN  /\ ~out.load.raised
           /\ "bank_charges_amount" \notin DOMAIN d
                 => s.bank_charges_amount = DEFAULT_BANK_CHARGES_AMOUNT
           /\ "pdf_orientation" \notin DOMAIN d => s.pdf_orientation = "Landscape"
           /\ \A k \in (DOMAIN d) \cap (PersistedKeys \ {"inspection_date"}) :
                 s[k] = d[k]
           /\ s.inspection_date \in Dates
           /\ strftime_Ymd(s.inspection_date) = SubSeq(d.inspection_date, 1, 10)

C5_Witness ==
    /\ out.load.ran
    /\ ~out.load.raised
    /\ DOMAIN out.load.src.draft = RequiredKeys
    /\ out.load.ss.institution_name = "ABU"
    /\ out.load.ss.bank_charges_added
    /\ out.load.ss.bank_charges_amount = DEFAULT_BANK_CHARGES_AMOUNT
    /\ out.load.ss.pdf_orientation = "Landscape"

\* C6: decoding the encoding of the working state into a fresh session
\* restores every persisted field of the state.
C6_DecodeInvertsEncode ==
    LET r == load_autosave(init_state(EmptySession), autosave(ss)) IN
    /\ ~r.raised
    /\ \A k \in PersistedKeys : r.ss[k] = ss[k]

C6_Witness ==
    /\ Completed
    /\ steps >= 1
    /\ last.w = "open"
    /\ out.load.ran
    /\ out.load.src = autosave(out.load.ss)
    /\ ss.inspection_date = OtherDate
    /\ ss.pdf_orientation = "Portrait"
    /\ ss.bank_charges_added
    /\ Len(ss.projects) = 2

RECURSIVE SumUpTo(_, _)
\* f[1] + ... + f[n]
SumUpTo(f, n) == IF n = 0 THEN 0 ELSE SumUpTo(f, n - 1) + f[n]

\* the summary the last run computed and handed to the renderers
LastSummary == out.excel.bytes.Summary[1]

\* C7: with the rider disabled the summary of the run is the reference
\* computation over the project list: counts, guarded completion rate, sums
\* of the two cost columns, disbursed as the sum of each project's own
\* percentage of its contract sum, balance = contract - disbursed.
C7_SummaryReference ==
    (Completed /\ out.excel.called /\ ~ss.bank_charges_added)
    => LET P == ss.projects
           n == Len(P)
           S == LastSummary
           done == Cardinality({i \in 1..n : P[i].completion >= 100})
       IN  /\ S.total_projects = n
           /\ S.completed = done
           /\ S.in_progress = n - done
           /\ n > 0 => S.completion_rate.num * n = done * 100 * S.completion_rate.den
           /\ n = 0 => S.completion_rate.num = 0
           /\ S.completion_rate.den > 0
           /\ S.total_approved = SumUpTo([i \in 1..n |-> P[i].approved_cost], n)
           /\ S.total_contract = SumUpTo([i \in 1..n |-> P[i].contract_sum], n)
           /\ 100 * S.total_disbursed
                 = SumUpTo([i \in 1..n |-> P[i].disbursed * P[i].contract_sum], n)
           /\ S.balance = S.total_contract - S.total_disbursed

C7_Witness ==
    /\ Completed
    /\ out.excel.called
    /\ ~ss.bank_charges_added
    /\ Len(ss.projects) = 2
    /\ LastSummary.completed = 1
    /\ LastSummary.total_disbursed = 2500
    /\ LastSummary.balance = 500

C7_WitnessEmpty ==
    /\ Completed
    /\ out.excel.called
    /\ ~ss.bank_charges_added
    /\ ss.projects = <<>>
    /\ LastSummary.completion_rate.num = 0

\* C8: the summary with the rider enabled exceeds the summary with the
\* rider disabled by exactly the rider amount in total_approved,
\* total_contract and total_disbursed, and has the same balance.
C8_RiderAddsEqually ==
    (Completed /\ out.excel.called)
    => LET P == ss.projects
           a == ss.bank_charges_amount
           on == IF ss.bank_charges_added THEN LastSummary ELSE Summary(P, TRUE, a)
           off == IF ss.bank_charges_added THEN Summary(P, FALSE, a) ELSE LastSummary
       IN  /\ on.total_approved = off.total_approved + a
           /\ on.total_contract = off.total_contract + a
           /\ on.total_disbursed = off.total_disbursed + a
           /\ on.balance = off.balance

C8_Witness ==
    /\ Completed
    /\ out.excel.called
    /\ ss.bank_charges_added
    /\ ss.bank_charges_amount = DEFAULT_BANK_CHARGES_AMOUNT
    /\ Len(ss.projects) >= 1
    /\ LastSummary.total_contract > DEFAULT_BANK_CHARGES_AMOUNT
    /\ LastSummary.balance > 0

\* C9: the document renderer receives the project list, followed by exactly
\* one synthetic row when the rider is enabled (approved cost = contract sum
\* = rider amount, disbursed 100, balance 0, completion 100, quality N/A) and
\* by nothing when it is disabled; the sums of approved cost, contract sum
\* and disbursed/100 * contract sum over the rows it receives are the
\* totals of the summary passed in the same call.
C9_RendererRows ==
    out.pdf.called
    => LET R == out.pdf.projects
           n == Len(ss.projects)
           S == out.pdf.summary
       IN  /\ SubSeq(R, 1, n) = ss.projects
           /\ ss.bank_charges_added
                 => /\ Len(R) = n + 1
                    /\ R[n + 1].approved_cost = ss.bank_charges_amount
                    /\ R[n + 1].contract_sum = ss.bank_charges_amount
                    /\ R[n + 1].disbursed = 100
                    /\ R[n + 1].balance = 0
                    /\ R[n + 1].completion = 100
                    /\ R[n + 1].quality = "N/A"
           /\ ~ss.bank_charges_added => Len(R) = n
           /\ S.total_approved = SumUpTo([i \in 1..Len(R) |-> R[i].approved_cost], Len(R))
           /\ S.total_contract = SumUpTo([i \in 1..Len(R) |-> R[i].contract_sum], Len(R))
           /\ 100 * S.total_disbursed
                 = SumUpTo([i \in 1..Len(R) |-> R[i].disbursed * R[i].contract_sum], Len(R))

C9_Witness ==
    /\ out.pdf.called
    /\ ss.bank_charges_added
    /\ Len(ss.projects) = 2
    /\ Len(out.pdf.projects) = 3
    /\ out.pdf.summary.total_contract = 3000 + ss.bank_charges_amount

\* C10: a generate request invokes the document renderer only when the
\* institution name, the location and the project list are all non-empty;
\* otherwise it shows blocking messages and produces no document.
C10_ExportRefusedWhileInvalid ==
    /\ out.pdf.called
          => /\ last.w = "generate_pdf"
             /\ ss.institution_name # ""
             /\ ss.location # ""
             /\ ss.projects # <<>>
    /\ ( /\ last.w = "generate_pdf"
         /\ ss.institution_name = "" \/ ss.location = "" \/ ss.projects = <<>> )
          => /\ ~out.pdf.called
             /\ ~out.download_pdf
             /\ out.warnings # {}
             /\ "Fix validation errors before generating PDF." \in out.errors

C10_Witness ==
    /\ last.w = "generate_pdf"
    /\ ss.institution_name # ""
    /\ ss.location = ""
    /\ ss.projects # <<>>
    /\ ~out.pdf.called
    /\ out.warnings = {"Location is required"}

\* the last interaction was a generate request whose render threw
RenderFailed(o, l) ==
    l.w = "generate_pdf" /\ o.pdf.called /\ o.pdf.result = "None"

\* C11: when document generation throws, generate_pdf returns None with the
\* error in displayable form, no download is offered, and the project list,
\* the roster, the report context and the persisted draft are what they
\* were before the render request.
C11_RenderFailureContained ==
    [][ RenderFailed(out', last')
        => /\ ~out'.crashed
           /\ "PDF generation failed" \in out'.errors
           /\ ~out'.download_pdf
           /\ \A k \in PersistedKeys : ss'[k] = ss[k]
           /\ file' = file ]_vars

\* the part of C11 that concerns the session
C11_SessionPart ==
    [][ RenderFailed(out', last')
        => /\ ~out'.crashed
           /\ "PDF generation failed" \in out'.errors
           /\ ~out'.download_pdf
           /\ \A k \in PersistedKeys : ss'[k] = ss[k] ]_vars

\* no row of the list is the synthetic bank-charges row
NoRiderRow(projects) ==
    \A i \in 1..Len(projects) :
        /\ "s_no" \in DOMAIN projects[i]
        /\ projects[i].project # "Bank and Administrative Charges"

\* the page is rendered and takes a further event
Interactive == Completed /\ steps < MaxSteps

\* C12: wherever a run follows, encoding the draft, rendering the
\* spreadsheet and requesting the document (rider row included, engine
\* working or throwing) each leave the session exactly as it was; and the
\* synthetic rider row is never in the session's project list nor in the
\* draft file.
C12_RenderersDoNotMutate ==
    LET m == [ ss |-> ss, ad |-> approval_date, file |-> file,
               out |-> BlankOut, halt |-> "run" ]
    IN  /\ Interactive
              => /\ AutosaveStep(m).ss = ss
                 /\ Exports(m, NoEvent, PDF_AVAILABLE).ss = ss
                 /\ \A ok \in BOOLEAN :
                       Exports(m, [w |-> "generate_pdf", engine_ok |-> ok], TRUE).ss = ss
        /\ NoRiderRow(ss.projects)
        /\ (file.exists /\ file.json /\ "projects" \in DOMAIN file.draft)
              => NoRiderRow(file.draft.projects)

C12_Witness ==
    /\ last.w = "generate_pdf"
    /\ out.excel.called
    /\ out.pdf.called
    /\ ss.bank_charges_added
    /\ out.pdf.projects[Len(out.pdf.projects)].project = "Bank and Administrative Charges"
    /\ NoRiderRow(ss.projects)
    /\ file = autosave(ss)

\* the run that the event ev starts in the current state, when it reaches
\* the project buttons (app.py 582): the draft is loaded if it has to be,
\* the widgets above are read and the editor pass is done
AtProjectButtons(ev) ==
    ProjectsEditor(
      AutosaveStep(
        InstitutionInfo(
          Startup([ ss |-> init_state(ss), ad |-> approval_date, file |-> file,
                    out |-> BlankOut, halt |-> "run" ]), ev)), ev)

\* the whole interaction that ev starts in the current state
After(ev) == Interaction(ss, approval_date, file, ev, PDF_AVAILABLE)

\* C13: wherever the page takes the event, Add Project followed by Remove
\* Last Project gives back the project list on which Add Project was
\* invoked, in content and in sequence numbers (the empty list included).
C13_AddThenRemoveRestores ==
    Interactive
    => \A P \in {AtProjectButtons([w |-> "add_project"]).ss.projects} :
       \A r1 \in {After([w |-> "add_project"])} :
       \A r2 \in {Interaction(r1.ss, r1.ad, r1.file, [w |-> "remove_last_project"],
                              PDF_AVAILABLE)} :
           /\ Len(r1.ss.projects) = Len(P) + 1
           /\ r1.ss.projects[Len(P) + 1].s_no = Len(P) + 1
           /\ ~r2.out.crashed
           /\ r2.ss.projects = P

\* Add Project has been pressed on the empty list, and Remove Last Project
\* then gives the empty list back
C13_Witness ==
    /\ Interactive
    /\ last.w = "add_project"
    /\ ss.projects = <<DEFAULT_PROJECT>>
    /\ After([w |-> "remove_last_project"]).ss.projects = <<>>

\* q is p without its last element
AllButLast(p) == SubSeq(p, 1, Len(p) - 1)

\* C14: wherever the page takes the event, Remove Last Project on an
\* empty list and Remove Last Team Member on an empty roster leave the list
\* empty, fail nothing and change nothing else in the session; on a
\* non-empty list each removes the final element only and keeps the others
\* in order.
C14_UnderflowIsNoOp ==
    Interactive
    => /\ \A pre \in {AtProjectButtons([w |-> "remove_last_project"]).ss} :
          \A post \in {After([w |-> "remove_last_project"])} :
              /\ ~post.out.crashed
              /\ \A k \in PersistedKeys \ {"projects"} : post.ss[k] = pre[k]
              /\ post.ss.projects =
                    IF pre.projects = <<>> THEN <<>> ELSE AllButLast(pre.projects)
       /\ \A pre \in {AtProjectButtons([w |-> "remove_last_member"]).ss} :
          \A post \in {After([w |-> "remove_last_member"])} :
              /\ ~post.out.crashed
              /\ \A k \in PersistedKeys \ {"monitoring_team"} : post.ss[k] = pre[k]
              /\ post.ss.monitoring_team =
                    IF pre.monitoring_team = <<>> THEN <<>>
                    ELSE AllButLast(pre.monitoring_team)

\* Remove Last Team Member has been pressed on an empty roster, with an
\* empty project list, and both buttons can be pressed again
C14_Witness ==
    /\ Interactive
    /\ last.w = "remove_last_member"
    /\ ss.monitoring_team = <<>>
    /\ ss.projects = <<>>
    /\ out.excel.called
    /\ out.load.ran = FALSE

-----------------------------------------------------------------------------
(* recalc_projects on its own (app.py 241-246): the table is drawn from    *)
(* bounded rows and the function is applied to it again and again          *)

\* rows as a table can hand them to recalc_projects: NaN stands for every
\* cell that pd.to_numeric(errors="coerce") turns into NaN (None, NaN, a
\* text that is no number); s_no and balance are whatever the table held
RecalcRows ==
    { [DEFAULT_PROJECT EXCEPT !.s_no = s, !.disbursed = d, !.completion = c,
                              !.balance = b] :
        s \in {1, 7}, d \in {NaN, 0, 30}, c \in {NaN, 100}, b \in {NaN, 10} }

RecalcTables ==
    UNION { [1..n -> RecalcRows] : n \in 0..MaxProjects }

\* how often the function is applied to one table
MaxRecalcs == 2

InitRecalc ==
    /\ ss \in { [init_state(EmptySession) EXCEPT !.projects = P] : P \in RecalcTables }
    /\ approval_date = Today
    /\ file = NoFile
    /\ PDF_AVAILABLE = FALSE
    /\ out = BlankOut
    /\ last = [w |-> "init"]
    /\ steps = 0

\* df = recalc_projects(df); the argument is kept in last
Recalc ==
    /\ steps < MaxRecalcs
    /\ ss' = [ss EXCEPT !.projects = recalc_projects(ss.projects)]
    /\ last' = [w |-> "recalc_projects", df |-> ss.projects]
    /\ steps' = steps + 1
    /\ UNCHANGED <<approval_date, file, PDF_AVAILABLE, out>>

NextRecalc == Recalc

SpecRecalc == InitRecalc /\ [][NextRecalc]_vars

\* C15: recalc_projects is idempotent: applied to its own result, also
\* the result for a table with invalid or missing disbursed / completion
\* cells (coerced to 0), it returns that result unchanged.
C15_RecalcIdempotent ==
    /\ recalc_projects(recalc_projects(ss.projects)) = recalc_projects(ss.projects)
    /\ last.w = "recalc_projects"
         => /\ ss.projects = recalc_projects(last.df)
            /\ recalc_projects(ss.projects) = ss.projects
            /\ \A i \in 1..Len(ss.projects) :
                  /\ last.df[i].disbursed = NaN => ss.projects[i].disbursed = 0
                  /\ last.df[i].completion = NaN => ss.projects[i].completion = 0

\* the function has been applied twice to a table of two rows, one with a
\* missing disbursed and completion cell and stale s_no and balance
C15_Witness ==
    /\ last.w = "recalc_projects"
    /\ steps = 2
    /\ Len(ss.projects) = 2
    /\ last.df = ss.projects
    /\ ss.projects[1].disbursed = 0 /\ ss.projects[1].balance = 100
    /\ ss.projects[2].disbursed = 30 /\ ss.projects[2].balance = 70
    /\ ss.projects[2].s_no = 2

-----------------------------------------------------------------------------

\* C16 (as claimed): in every document render call the summary's
\* total_projects is the number of project rows handed to the renderer and
\* its completed is the number of those rows with completion >= 100, rider
\* enabled or not.
C16_CountsMatchRenderedRows ==
    out.pdf.called
    => LET R == out.pdf.projects
           S == out.pdf.summary
       IN  /\ S.total_projects = Len(R)
           /\ S.completed = Cardinality({i \in 1..Len(R) : R[i].completion >= 100})

\* C16 (amended): in every document render call the summary's
\* total_projects is the number of rows handed to the renderer less the
\* synthetic rider row (one when the rider is enabled, none otherwise), and
\* its completed is the number of those rows with completion >= 100 less
\* the same.
C16_CountsOfSessionList ==
    out.pdf.called
    => LET R == out.pdf.projects
           S == out.pdf.summary
           rider == IF ss.bank_charges_added THEN 1 ELSE 0
       IN  /\ S.total_projects = Len(R) - rider
           /\ S.completed = Cardinality({i \in 1..Len(R) : R[i].completion >= 100}) - rider

\* a document of three rows, the rider row among them, one of the two
\* projects complete, has been rendered
C16_Witness ==
    /\ out.pdf.called
    /\ ss.bank_charges_added
    /\ Len(out.pdf.projects) = 3
    /\ out.pdf.projects[3].project = "Bank and Administrative Charges"
    /\ out.pdf.summary.total_projects = 2
    /\ out.pdf.summary.completed = 1
    /\ out.pdf.projects[2].completion = 100

\* the run that the event ev starts in the current state, when it reaches
\* the projects editor (app.py 555)
AtProjectsEditor(ev) ==
    AutosaveStep(
      InstitutionInfo(
        Startup([ ss |-> init_state(ss), ad |-> approval_date, file |-> file,
                  out |-> BlankOut, halt |-> "run" ]), ev))

\* the last run loaded a draft whose project list is empty
LoadedEmptyList(o) ==
    /\ o.load.ran
    /\ o.load.src.exists
    /\ o.load.src.json
    /\ "projects" \in DOMAIN o.load.src.draft
    /\ o.load.src.draft.projects = <<>>

\* C17: an empty table delivered by the projects editor is ignored: the
\* stored list stays exactly as it was (not recomputed, not replaced); a
\* non-empty table is stored after a recalc_projects pass; so a non-empty
\* project list becomes empty only by Remove Last Project or by loading a
\* draft whose project list is empty.
C17_EmptyReplacementIgnored ==
    [][ /\ (last'.w = "projects_editor" /\ ~out'.crashed)
            => \A stored \in {AtProjectsEditor(last').ss.projects} :
               \A edited_df \in {data_editor(stored, last')} :
                   /\ edited_df = <<>> => ss'.projects = stored
                   /\ edited_df # <<>>
                        => /\ ss'.projects = recalc_projects(edited_df)
                           /\ Normalized(ss'.projects)
        /\ (ss.projects # <<>> /\ ss'.projects = <<>>)
            => \/ last'.w = "remove_last_project"
               \/ LoadedEmptyList(out') ]_vars

\* every row of a list of two projects has been deleted in the editor and
\* the list is still there
C17_Witness ==
    /\ Completed
    /\ last.w = "projects_editor"
    /\ last.v.op = "delete"
    /\ last.v.rows = {1, 2}
    /\ Len(ss.projects) = 2
    /\ Normalized(ss.projects)
    /\ steps = 2

====
